---- MODULE Spec2Model ----
(***************************************************************************)
(* Model of the cache-backed resume analysis pipeline of app.py:           *)
(* CacheManager (key generation, get, set on the redis or the in-process   *)
(* backend), extract_text_from_pdf, call_qwen_analysis and the analyze     *)
(* request handler, run by NumReq concurrent handler threads.              *)
(***************************************************************************)
EXTENDS Integers, Sequences, FiniteSets, TLC

\* Number of request handler threads that may be in flight together.
NumReq == 2
Req == 1..NumReq

(***************************************************************************)
(* Python values.  A value is a record [kind, items]; items is the         *)
(* sequence of <<key, scalar>> members of a dict (insertion order), the    *)
(* <<"", scalar>> elements of a list, or the single scalar of an int.      *)
(***************************************************************************)
None == [kind |-> "None", items |-> <<>>]
Dict(items) == [kind |-> "dict", items |-> items]
List(items) == [kind |-> "list", items |-> items]
Num(tok) == [kind |-> "int", items |-> <<<<"", tok>>>>]

\* bool(v) as used by `if cached_data:` and `if data`
Truthy(v) ==
    CASE v.kind = "None" -> FALSE
      [] v.kind = "int"  -> v.items[1][2] # "0"
      [] OTHER           -> v.items # <<>>

HasKey(v, k) == v.kind = "dict" /\ \E i \in 1..Len(v.items) : v.items[i][1] = k

\* v[k] for a dict that holds k
GetItem(v, k) == v.items[CHOOSE i \in 1..Len(v.items) : v.items[i][1] = k][2]

\* v[k] = s : only a dict supports assignment by a string key
SetItemRaises(v) == v.kind # "dict"

SetItem(v, k, s) ==
    IF HasKey(v, k)
    THEN Dict([i \in 1..Len(v.items) |->
                 IF v.items[i][1] = k THEN <<k, s>> ELSE v.items[i]])
    ELSE Dict(Append(v.items, <<k, s>>))

(***************************************************************************)
(* Text is a sequence of tokens.  json.dumps / json.loads.                 *)
(***************************************************************************)
WS == {" ", "\n"}
Keys == {"match_score", "_is_cached", "error"}
Numbers == {"0", "60", "85"}
Quote(k) == "\"" \o k \o "\""

\* Python scalar -> JSON token and back
ScalarToJson(s) == IF s = "True" THEN "true" ELSE s
ScalarFromJson(t) == IF t = "true" THEN "True" ELSE t
IsJsonScalar(t) == t \in Numbers \cup {"true"}
IsJsonString(t) == \E k \in Keys : t = Quote(k)
KeyOf(t) == CHOOSE k \in Keys : t = Quote(k)

RECURSIVE DumpMembers(_)
DumpMembers(items) ==
    IF items = <<>> THEN <<>>
    ELSE <<Quote(items[1][1]), ":", " ", ScalarToJson(items[1][2])>>
         \o (IF Len(items) = 1 THEN <<>> ELSE <<",", " ">> \o DumpMembers(Tail(items)))

RECURSIVE DumpElements(_)
DumpElements(items) ==
    IF items = <<>> THEN <<>>
    ELSE <<ScalarToJson(items[1][2])>>
         \o (IF Len(items) = 1 THEN <<>> ELSE <<",", " ">> \o DumpElements(Tail(items)))

\* json.dumps(data, ensure_ascii=False): default separators ", " and ": "
json_dumps(v) ==
    CASE v.kind = "dict" -> <<"{">> \o DumpMembers(v.items) \o <<"}">>
      [] v.kind = "list" -> <<"[">> \o DumpElements(v.items) \o <<"]">>
      [] v.kind = "int"  -> <<v.items[1][2]>>
      [] OTHER           -> <<"null">>

RECURSIVE DropWS(_)
DropWS(t) ==
    IF t = <<>> THEN <<>>
    ELSE IF Head(t) \in WS THEN DropWS(Tail(t))
    ELSE <<Head(t)>> \o DropWS(Tail(t))

\* members of an object after the opening brace: k : v (, k : v)* }
RECURSIVE ParseMembers(_)
ParseMembers(t) ==
    IF Len(t) >= 4 /\ IsJsonString(t[1]) /\ t[2] = ":" /\ IsJsonScalar(t[3])
    THEN IF t[4] = "}" /\ Len(t) = 4
         THEN [ok |-> TRUE, items |-> <<<<KeyOf(t[1]), ScalarFromJson(t[3])>>>>]
         ELSE IF t[4] = ","
              THEN LET rest == ParseMembers(SubSeq(t, 5, Len(t)))
                   IN  [ok |-> rest.ok,
                        items |-> <<<<KeyOf(t[1]), ScalarFromJson(t[3])>>>> \o rest.items]
              ELSE [ok |-> FALSE, items |-> <<>>]
    ELSE [ok |-> FALSE, items |-> <<>>]

\* the JSON document made of the tokens t, white space removed
ParseTokens ==
    [t \in Seq(STRING) |->
        LET bad == [ok |-> FALSE, val |-> None]
        IN  CASE t = <<"{", "}">> -> [ok |-> TRUE, val |-> Dict(<<>>)]
              [] t = <<"[", "]">> -> [ok |-> TRUE, val |-> List(<<>>)]
              [] t = <<"null">>   -> [ok |-> TRUE, val |-> None]
              [] Len(t) = 1 /\ t[1] \in Numbers -> [ok |-> TRUE, val |-> Num(t[1])]
              [] Len(t) = 3 /\ t[1] = "[" /\ IsJsonScalar(t[2]) /\ t[3] = "]" ->
                    [ok |-> TRUE, val |-> List(<<<<"", ScalarFromJson(t[2])>>>>)]
              [] Len(t) > 2 /\ t[1] = "{" ->
                    LET m == ParseMembers(Tail(t))
                    IN  IF m.ok THEN [ok |-> TRUE, val |-> Dict(m.items)] ELSE bad
              [] OTHER -> bad]

\* json.loads(text): [ok |-> parsed without JSONDecodeError, val |-> value]
json_loads(text) == ParseTokens[DropWS(text)]

\* str.strip()
RECURSIVE LStrip(_)
LStrip(t) == IF t # <<>> /\ Head(t) \in WS THEN LStrip(Tail(t)) ELSE t
RECURSIVE RStrip(_)
RStrip(t) == IF t # <<>> /\ t[Len(t)] \in WS THEN RStrip(SubSeq(t, 1, Len(t) - 1)) ELSE t
Strip(t) == LStrip(RStrip(t))

(***************************************************************************)
(* Fingerprint: hashlib.md5(...).hexdigest() and str.encode('utf-8').      *)
(* Bytes are sequences of 0..255, text for the job description is a        *)
(* sequence of code points.  The digest is modelled collision-free on the  *)
(* bounded inputs: a fixed-width string of DigestHexLen hex digits.        *)
(***************************************************************************)
DigestHexLen == 32
HexDigits == <<"0", "1", "2", "3", "4", "5", "6", "7",
               "8", "9", "a", "b", "c", "d", "e", "f">>
Hex2(b) == HexDigits[(b \div 16) + 1] \o HexDigits[(b % 16) + 1]

RECURSIVE HexOf(_)
HexOf(bs) == IF bs = <<>> THEN "" ELSE Hex2(Head(bs)) \o HexOf(Tail(bs))

RECURSIVE Zeros(_)
Zeros(n) == IF n <= 0 THEN "" ELSE "0" \o Zeros(n - 1)

md5_hexdigest(bs) == HexOf(bs) \o "80" \o Zeros(DigestHexLen - 2 * Len(bs) - 2)

RECURSIVE encode_utf8(_)
encode_utf8(cps) ==
    IF cps = <<>> THEN <<>>
    ELSE (IF Head(cps) < 128 THEN <<Head(cps)>>
          ELSE <<192 + (Head(cps) \div 64), 128 + (Head(cps) % 64)>>)
         \o encode_utf8(Tail(cps))

Namespace == "resume:v3"

\* variant: one digest over the bytes followed by the encoded text
generate_key_Joined(file_bytes, jd_text) ==
    Namespace \o ":" \o md5_hexdigest(file_bytes \o encode_utf8(jd_text))

\* variant: the job description takes no part in the fingerprint
generate_key_BytesOnly(file_bytes, jd_text) ==
    Namespace \o ":" \o md5_hexdigest(file_bytes)
              \o ":" \o md5_hexdigest(<<>>)

generate_key(file_bytes, jd_text) ==
    Namespace \o ":" \o md5_hexdigest(file_bytes)
              \o ":" \o md5_hexdigest(encode_utf8(jd_text))

(***************************************************************************)
(* extract_text_from_pdf.  A document is the byte 37 ('%') followed by one *)
(* byte per page; any other byte string makes PdfReader raise.             *)
(***************************************************************************)
PdfParses(file_bytes) == file_bytes # <<>> /\ Head(file_bytes) = 37

\* page.extract_text() or ""
PageText(b) ==
    CASE b = 32 -> <<" ">>
      [] b = 10 -> <<"\n">>
      [] b = 0  -> <<>>
      [] OTHER  -> <<"text">>

RECURSIVE JoinPages(_)
JoinPages(pages) ==
    IF pages = <<>> THEN <<>>
    ELSE PageText(Head(pages))
         \o (IF Len(pages) = 1 THEN <<>> ELSE <<"\n">> \o JoinPages(Tail(pages)))

extract_text_from_pdf(file_bytes) ==
    IF PdfParses(file_bytes) THEN JoinPages(Tail(file_bytes)) ELSE <<>>

\* variant: the text is tested without strip()
ExtractionEmpty_NoStrip(resume_text) == resume_text = <<>>

\* `not resume_text.strip()`
ExtractionEmpty(resume_text) == Strip(resume_text) = <<>>

(***************************************************************************)
(* JSON cleaning of the raw reply (lines 221-225).                         *)
(***************************************************************************)
\* the three-backquote code fence marker, alone and with its json label
FenceOpen == "<fence>json"
FenceClose == "<fence>"

HasFence(t) == \E i \in 1..Len(t) : t[i] = FenceOpen
FirstFence(t) == CHOOSE i \in 1..Len(t) :
                    t[i] = FenceOpen /\ \A h \in 1..(i - 1) : t[h] # FenceOpen
\* the closing marker is a prefix of the opening one, so either token ends the match
ClosesFence(tok) == tok \in {FenceClose, FenceOpen}
FenceMatches(t) == \E j \in (FirstFence(t) + 1)..Len(t) : ClosesFence(t[j])
FenceEnd(t) == CHOOSE j \in (FirstFence(t) + 1)..Len(t) :
                  ClosesFence(t[j]) /\ \A h \in (FirstFence(t) + 1)..(j - 1) : ~ClosesFence(t[h])

\* variant: text that does not parse is replaced by an empty mapping
Normalize_Defaulting(raw_result) ==
    LET json_str == Strip(raw_result)
        inner == IF HasFence(json_str) /\ FenceMatches(json_str)
                 THEN SubSeq(json_str, FirstFence(json_str) + 1, FenceEnd(json_str) - 1)
                 ELSE json_str
        p == json_loads(inner)
    IN  [ok |-> TRUE, val |-> IF p.ok THEN p.val ELSE Dict(<<>>), err |-> ""]

\* lines 222-225 on the stripped reply: fence, json.loads
ParseJsonStr ==
    [json_str \in Seq(STRING) |->
        IF HasFence(json_str) /\ ~FenceMatches(json_str)
        THEN [ok |-> FALSE, val |-> None, err |-> "AttributeError"]
        ELSE LET inner == IF HasFence(json_str)
                          THEN SubSeq(json_str, FirstFence(json_str) + 1, FenceEnd(json_str) - 1)
                          ELSE json_str
                 p == json_loads(inner)
             IN  IF p.ok THEN [ok |-> TRUE, val |-> p.val, err |-> ""]
                 ELSE [ok |-> FALSE, val |-> None, err |-> "JSONDecodeError"]]

\* [ok, val, err] : final_data or the exception raised on the way
Normalize(raw_result) == ParseJsonStr[Strip(raw_result)]

(***************************************************************************)
(* Inputs of a request and replies of the remote service.                  *)
(***************************************************************************)
NoFile == <<-1>>
\* the (file, jd) pairs a client sends
Inputs == {<<NoFile, <<>>>>, <<<<>>, <<233>>>>, <<<<80>>, <<>>>>, <<<<37, 32, 10>>, <<>>>>,
           <<<<37, 65, 0>>, <<>>>>, <<<<37, 65, 0>>, <<233>>>>}

RawBare85 == <<" ", "{", Quote("match_score"), ":", "85", "}", "\n">>
RawFenced85 == <<"Result", "\n", FenceOpen, "\n", "{", Quote("match_score"), ":", " ", "85", "}",
                 "\n", FenceClose>>
RawBare60 == <<"{", Quote("match_score"), ":", "60", "}">>
RawUnclosed == <<FenceOpen, "\n", "{", Quote("match_score"), ":", "85", "}">>
RawProse == <<"Sorry", ",", " ", "no", " ", "result">>
RawEmptyObj == <<"{", "}">>
RawList == <<"[", "85", "]">>
RawNull == <<"null">>
RawReplies == {RawBare85, RawFenced85, RawBare60, RawUnclosed, RawProse, RawEmptyObj, RawList, RawNull}

(***************************************************************************)
(* State.                                                                  *)
(***************************************************************************)
VARIABLES
    use_redis,      \* CacheManager.use_redis
    QWEN_API_KEY,   \* module constant read from the environment
    local_cache,    \* CacheManager.local_cache: key -> reference into heap
    redis,          \* contents of the redis server: key -> stored text
    heap,           \* Python objects: reference -> value
    pc,             \* position of each handler thread in analyze
    file,           \* request.files['file'] bytes, or NoFile
    jd,             \* request.form.get('jd', '')
    cache_key,      \* local cache_key of analyze
    cached_data,    \* local cached_data of analyze: reference, 0 for None
    resume_text,    \* local resume_text
    raw_result,     \* local raw_result
    final_data,     \* local final_data: reference, 0 while unassigned
    response,       \* what analyze returned: [status, body, via]
    calls,          \* per request: how often each collaborator was invoked
    backend,        \* per request: how its get went (until its next step) and its set
    lastSet,        \* per key: value and caller of the last set that stored
    startedAfter,   \* per request: the requests that had returned when it arrived
    faultSeen,      \* a redis call has raised or returned undecodable data
    key_in,         \* generate_key exercised alone: two (bytes, text) arguments
    key_out         \* ... and the two keys it returned, <<>> before the calls

cfgVars == <<use_redis, QWEN_API_KEY, key_in, key_out>>
storeVars == <<local_cache, redis, heap, lastSet, faultSeen>>
inputVars == <<file, jd, startedAfter>>
localVars == <<cache_key, cached_data, resume_text, raw_result, final_data>>
vars == <<use_redis, QWEN_API_KEY, local_cache, redis, heap, pc, file, jd,
          cache_key, cached_data, resume_text, raw_result, final_data, response, calls,
          backend, lastSet, startedAfter, faultSeen, key_in, key_out>>

\* references: final_data of request r lives at r, the object json.loads
\* builds inside CacheManager.get for request r lives at NumReq + r
Refs == 1..(2 * NumReq)
FinalRef(r) == r
LoadedRef(r) == NumReq + r

NoResponse == [status |-> 0, body |-> None, via |-> "-"]
ErrorBody(msg) == Dict(<<<<"error", msg>>>>)
NoCalls == [key |-> 0, get |-> 0, set |-> 0, extract |-> 0, remote |-> 0]
NoBackend == [get |-> "-", set |-> "-"]

\* CacheManager.__init__: the redis client is built when the library and
\* REDIS_HOST are present, and selected only when the ping answers
CacheManagerInit(hasLib, hostSet, pingOk) ==
    IF hasLib /\ hostSet
    THEN [redis_client |-> "client", use_redis |-> pingOk]
    ELSE [redis_client |-> "None", use_redis |-> FALSE]

InitRequests ==
    /\ local_cache = <<>>
    /\ redis = <<>>
    /\ heap = [o \in Refs |-> None]
    /\ pc = [r \in Req |-> "Start"]
    /\ file = [r \in Req |-> NoFile]
    /\ jd = [r \in Req |-> <<>>]
    /\ cache_key = [r \in Req |-> ""]
    /\ cached_data = [r \in Req |-> 0]
    /\ resume_text = [r \in Req |-> <<>>]
    /\ raw_result = [r \in Req |-> <<>>]
    /\ final_data = [r \in Req |-> 0]
    /\ response = [r \in Req |-> NoResponse]
    /\ calls = [r \in Req |-> NoCalls]
    /\ backend = [r \in Req |-> NoBackend]
    /\ lastSet = <<>>
    /\ startedAfter = [r \in Req |-> {}]
    /\ faultSeen = FALSE

Init ==
    /\ \E hasLib \in BOOLEAN, hostSet \in BOOLEAN, pingOk \in BOOLEAN :
          LET cm == CacheManagerInit(hasLib, hostSet, pingOk)
          IN  use_redis = cm.use_redis
    /\ QWEN_API_KEY \in {"", "sk-key"}
    /\ InitRequests
    /\ key_in = <<>>
    /\ key_out = <<>>

\* `return jsonify(...), status` and the `except Exception` envelope
Finish(r, status, body, via) ==
    /\ response' = [response EXCEPT ![r] = [status |-> status, body |-> body, via |-> via]]
    /\ pc' = [pc EXCEPT ![r] = "Done"]

\* d[k] = v on a mapping held as a function
Put(d, k, v) == [x \in (DOMAIN d) \cup {k} |-> IF x = k THEN v ELSE d[x]]
Remove(d, k) == [x \in (DOMAIN d) \ {k} |-> d[x]]

\* Positions whose next step touches nothing but the thread's own locals and
\* the remote service.  Such a step commutes with every step of the other
\* threads, so it is run before any other thread moves: a thread is only
\* ever preempted in front of an access to the cache or to a cached object.
LocalPcs == {"CacheCheck", "ExtractText", "RequestAnalysis", "Normalize"}
Scheduled(r) == \A q \in Req \ {r} : pc[q] \notin LocalPcs

\* `'file' not in request.files`
FileMissing(f) == f = NoFile
\* variant: the emptiness test on the bytes read is left out
FileEmpty_Unchecked(f) == FALSE

\* `not file_bytes`
FileEmpty(f) == f = <<>>

(***************************************************************************)
(* analyze, lines 189-204: validation and fingerprint.                     *)
(***************************************************************************)
Validate(r) ==
    /\ pc[r] = "Start"
    /\ Scheduled(r)
    /\ \A q \in 1..(r - 1) : pc[q] # "Start"
    /\ \E inp \in Inputs : LET f == inp[1]  j == inp[2] IN
          /\ file' = [file EXCEPT ![r] = f]
          /\ jd' = [jd EXCEPT ![r] = j]
          /\ startedAfter' = [startedAfter EXCEPT ![r] = {q \in Req : pc[q] = "Done"}]
          /\ IF FileMissing(f)
             THEN /\ Finish(r, 400, ErrorBody("No file uploaded"), "ErrorReturn")
                  /\ UNCHANGED <<cache_key, calls>>
             ELSE IF FileEmpty(f)
             THEN /\ Finish(r, 400, ErrorBody("Empty file"), "ErrorReturn")
                  /\ UNCHANGED <<cache_key, calls>>
             ELSE /\ cache_key' = [cache_key EXCEPT ![r] = generate_key(f, j)]
                  /\ calls' = [calls EXCEPT ![r].key = @ + 1]
                  /\ pc' = [pc EXCEPT ![r] = "CacheCheck"]
                  /\ UNCHANGED response
    /\ UNCHANGED <<cfgVars, storeVars, cached_data, resume_text, raw_result, final_data, backend>>

(***************************************************************************)
(* CacheManager.get and the hit test, lines 75-82 and 205-207.             *)
(***************************************************************************)
\* text no JSON parser accepts
Garbage == <<"{", "garbage">>
RedisGetOutcomes == {"ok", "raise", "garbage"}
RedisSetOutcomes == {"ok", "raise"}

\* what redis_client.get(key) hands back when it does not raise; <<>> is None
RedisData(key, out) ==
    IF out = "garbage" THEN Garbage
    ELSE IF key \in DOMAIN redis THEN redis[key] ELSE <<>>

\* variant: get without the try/except around the client call and json.loads
cache_get_redis_Unguarded(key, out) ==
    IF out = "raise" THEN [raises |-> TRUE, val |-> None]
    ELSE LET data == RedisData(key, out)
         IN  IF data = <<>> THEN [raises |-> FALSE, val |-> None]
             ELSE LET p == json_loads(data)
                  IN  [raises |-> ~p.ok, val |-> IF p.ok THEN p.val ELSE None]

\* the redis branch of get: [raises, val]; the bare except turns a raising
\* client and a failing json.loads into None
cache_get_redis(key, out) ==
    IF out = "raise" THEN [raises |-> FALSE, val |-> None]
    ELSE LET data == RedisData(key, out)
         IN  IF data = <<>> THEN [raises |-> FALSE, val |-> None]
             ELSE LET p == json_loads(data)
                  IN  [raises |-> FALSE, val |-> IF p.ok THEN p.val ELSE None]

\* `if cached_data:`
CacheHit(v) == Truthy(v)

CacheGetLocal(r) ==
    /\ pc[r] = "CacheCheck"
    /\ Scheduled(r)
    /\ ~use_redis
    /\ LET ref == IF cache_key[r] \in DOMAIN local_cache THEN local_cache[cache_key[r]] ELSE 0
           val == IF ref = 0 THEN None ELSE heap[ref]
       IN  /\ cached_data' = [cached_data EXCEPT ![r] = ref]
           /\ pc' = [pc EXCEPT ![r] = IF CacheHit(val) THEN "HitMark" ELSE "ExtractText"]
           /\ backend' = [backend EXCEPT ![r].get = IF ref = 0 THEN "absent" ELSE "value"]
    /\ calls' = [calls EXCEPT ![r].get = @ + 1]
    /\ UNCHANGED <<cfgVars, storeVars, inputVars, cache_key, resume_text, raw_result,
                   final_data, response>>

CacheGetRedis(r) ==
    /\ pc[r] = "CacheCheck"
    /\ Scheduled(r)
    /\ use_redis
    /\ \E out \in RedisGetOutcomes :
          LET res == cache_get_redis(cache_key[r], out)
          IN  /\ backend' = [backend EXCEPT ![r].get =
                                IF out # "ok" THEN out
                                ELSE IF cache_key[r] \in DOMAIN redis THEN "value" ELSE "absent"]
              /\ faultSeen' = (faultSeen \/ out # "ok")
              /\ IF res.raises
                 THEN /\ Finish(r, 500, ErrorBody("RedisError"), "ErrorReturn")
                      /\ UNCHANGED <<cached_data, heap>>
                 ELSE /\ cached_data' = [cached_data EXCEPT ![r] =
                                            IF res.val = None THEN 0 ELSE LoadedRef(r)]
                      /\ heap' = [heap EXCEPT ![LoadedRef(r)] = res.val]
                      /\ pc' = [pc EXCEPT ![r] =
                                   IF CacheHit(res.val) THEN "HitMark" ELSE "ExtractText"]
                      /\ UNCHANGED response
    /\ calls' = [calls EXCEPT ![r].get = @ + 1]
    /\ UNCHANGED <<cfgVars, local_cache, redis, lastSet, inputVars, cache_key, resume_text,
                   raw_result, final_data>>

(***************************************************************************)
(* The hit path, lines 208-210.                                            *)
(***************************************************************************)
\* cached_data["_is_cached"] = True, on the object cached_data refers to
HitMark(r) ==
    /\ pc[r] = "HitMark"
    /\ Scheduled(r)
    /\ IF SetItemRaises(heap[cached_data[r]])
       THEN /\ Finish(r, 500, ErrorBody("TypeError"), "ErrorReturn")
            /\ UNCHANGED heap
       ELSE /\ heap' = [heap EXCEPT ![cached_data[r]] = SetItem(@, "_is_cached", "True")]
            /\ pc' = [pc EXCEPT ![r] = "HitReturn"]
            /\ UNCHANGED response
    /\ backend' = [backend EXCEPT ![r] = NoBackend]
    /\ UNCHANGED <<cfgVars, local_cache, redis, lastSet, faultSeen, inputVars, localVars, calls>>

\* return jsonify(cached_data)
HitReturn(r) ==
    /\ pc[r] = "HitReturn"
    /\ Scheduled(r)
    /\ Finish(r, 200, heap[cached_data[r]], "HitReturn")
    /\ UNCHANGED <<cfgVars, storeVars, inputVars, localVars, calls, backend>>

(***************************************************************************)
(* The miss path, lines 212-230.                                           *)
(***************************************************************************)
ExtractText(r) ==
    /\ pc[r] = "ExtractText"
    /\ Scheduled(r)
    /\ LET text == extract_text_from_pdf(file[r])
       IN  /\ resume_text' = [resume_text EXCEPT ![r] = text]
           /\ IF ExtractionEmpty(text)
              THEN Finish(r, 400, ErrorBody("PDF text empty"), "ErrorReturn")
              ELSE /\ pc' = [pc EXCEPT ![r] = "RequestAnalysis"]
                   /\ UNCHANGED response
    /\ calls' = [calls EXCEPT ![r].extract = @ + 1]
    /\ backend' = [backend EXCEPT ![r] = NoBackend]
    /\ UNCHANGED <<cfgVars, storeVars, inputVars, cache_key, cached_data, raw_result,
                   final_data>>

\* requests.post raising (network, timeout) and a reply without the
\* choices[0].message.content path
RemoteFailures == {"Timeout", "KeyError"}

\* variant: a failed call is attempted a second time before giving up
RequestAnalysis_Retrying(r) ==
    /\ pc[r] = "RequestAnalysis"
    /\ Scheduled(r)
    /\ IF QWEN_API_KEY = ""
       THEN /\ Finish(r, 500, ErrorBody("QWEN_API_KEY not configured"), "ErrorReturn")
            /\ UNCHANGED <<raw_result, calls>>
       ELSE /\ calls' = [calls EXCEPT ![r].remote = @ + 1]
            /\ \/ \E e \in RemoteFailures :
                     /\ IF calls[r].remote = 0
                        THEN UNCHANGED <<pc, response>>
                        ELSE Finish(r, 500, ErrorBody(e), "ErrorReturn")
                     /\ UNCHANGED raw_result
               \/ \E raw \in RawReplies :
                     /\ raw_result' = [raw_result EXCEPT ![r] = raw]
                     /\ pc' = [pc EXCEPT ![r] = "Normalize"]
                     /\ UNCHANGED response
    /\ UNCHANGED <<cfgVars, storeVars, inputVars, cache_key, cached_data, resume_text,
                   final_data, backend>>

\* variant: requests.post without timeout, a silent service blocks the thread
RequestAnalysis_NoTimeout(r) ==
    /\ pc[r] = "RequestAnalysis"
    /\ Scheduled(r)
    /\ IF QWEN_API_KEY = ""
       THEN /\ Finish(r, 500, ErrorBody("QWEN_API_KEY not configured"), "ErrorReturn")
            /\ UNCHANGED <<raw_result, calls>>
       ELSE /\ calls' = [calls EXCEPT ![r].remote = @ + 1]
            /\ \/ \E e \in RemoteFailures :
                     /\ IF e = "Timeout"
                        THEN /\ pc' = [pc EXCEPT ![r] = "Blocked"]
                             /\ UNCHANGED response
                        ELSE Finish(r, 500, ErrorBody(e), "ErrorReturn")
                     /\ UNCHANGED raw_result
               \/ \E raw \in RawReplies :
                     /\ raw_result' = [raw_result EXCEPT ![r] = raw]
                     /\ pc' = [pc EXCEPT ![r] = "Normalize"]
                     /\ UNCHANGED response
    /\ UNCHANGED <<cfgVars, storeVars, inputVars, cache_key, cached_data, resume_text,
                   final_data, backend>>

\* call_qwen_analysis, lines 110-181
RequestAnalysis(r) ==
    /\ pc[r] = "RequestAnalysis"
    /\ Scheduled(r)
    /\ IF QWEN_API_KEY = ""
       THEN /\ Finish(r, 500, ErrorBody("QWEN_API_KEY not configured"), "ErrorReturn")
            /\ UNCHANGED <<raw_result, calls>>
       ELSE /\ calls' = [calls EXCEPT ![r].remote = @ + 1]
            /\ \/ \E e \in RemoteFailures :
                     /\ Finish(r, 500, ErrorBody(e), "ErrorReturn")
                     /\ UNCHANGED raw_result
               \/ \E raw \in RawReplies :
                     /\ raw_result' = [raw_result EXCEPT ![r] = raw]
                     /\ pc' = [pc EXCEPT ![r] = "Normalize"]
                     /\ UNCHANGED response
    /\ UNCHANGED <<cfgVars, storeVars, inputVars, cache_key, cached_data, resume_text,
                   final_data, backend>>

\* lines 221-225: strip, fence, json.loads
NormalizeStep(r) ==
    /\ pc[r] = "Normalize"
    /\ Scheduled(r)
    /\ LET n == Normalize(raw_result[r])
       IN  IF n.ok
           THEN /\ final_data' = [final_data EXCEPT ![r] = FinalRef(r)]
                /\ heap' = [heap EXCEPT ![FinalRef(r)] = n.val]
                /\ pc' = [pc EXCEPT ![r] = "CacheWrite"]
                /\ UNCHANGED response
           ELSE /\ Finish(r, 500, ErrorBody(n.err), "ErrorReturn")
                /\ UNCHANGED <<final_data, heap>>
    /\ UNCHANGED <<cfgVars, local_cache, redis, lastSet, faultSeen, inputVars, cache_key,
                   cached_data, resume_text, raw_result, calls, backend>>

\* variant: set without the try/except around setex
cache_set_redis_Unguarded(out) ==
    IF out = "raise" THEN [raises |-> TRUE, stores |-> FALSE]
    ELSE [raises |-> FALSE, stores |-> TRUE]

\* the redis branch of set: [raises, stores]; the except clause logs and
\* swallows a raising setex
cache_set_redis(out) ==
    IF out = "raise" THEN [raises |-> FALSE, stores |-> FALSE]
    ELSE [raises |-> FALSE, stores |-> TRUE]

\* cache_manager.set(cache_key, final_data) on the in-process mapping
CacheWriteLocal(r) ==
    /\ pc[r] = "CacheWrite"
    /\ Scheduled(r)
    /\ ~use_redis
    /\ local_cache' = Put(local_cache, cache_key[r], final_data[r])
    /\ lastSet' = Put(lastSet, cache_key[r], [val |-> heap[final_data[r]], by |-> r])
    /\ backend' = [backend EXCEPT ![r].set = "ok"]
    /\ calls' = [calls EXCEPT ![r].set = @ + 1]
    /\ pc' = [pc EXCEPT ![r] = "Return"]
    /\ UNCHANGED <<cfgVars, redis, heap, faultSeen, inputVars, localVars, response>>

\* variant: a raising setex makes set store the value in the in-process mapping
CacheWriteRedis_Fallback(r) ==
    /\ pc[r] = "CacheWrite"
    /\ Scheduled(r)
    /\ use_redis
    /\ \E out \in RedisSetOutcomes :
          LET res == cache_set_redis(out)
          IN  /\ backend' = [backend EXCEPT ![r].set = out]
              /\ faultSeen' = (faultSeen \/ out # "ok")
              /\ IF res.stores
                 THEN /\ redis' = Put(redis, cache_key[r], json_dumps(heap[final_data[r]]))
                      /\ lastSet' = Put(lastSet, cache_key[r],
                                        [val |-> heap[final_data[r]], by |-> r])
                      /\ UNCHANGED local_cache
                 ELSE /\ local_cache' = Put(local_cache, cache_key[r], final_data[r])
                      /\ UNCHANGED <<redis, lastSet>>
              /\ pc' = [pc EXCEPT ![r] = "Return"]
              /\ UNCHANGED response
    /\ calls' = [calls EXCEPT ![r].set = @ + 1]
    /\ UNCHANGED <<cfgVars, heap, inputVars, localVars>>

\* cache_manager.set(cache_key, final_data) on redis: setex of json.dumps
CacheWriteRedis(r) ==
    /\ pc[r] = "CacheWrite"
    /\ Scheduled(r)
    /\ use_redis
    /\ \E out \in RedisSetOutcomes :
          LET res == cache_set_redis(out)
          IN  /\ backend' = [backend EXCEPT ![r].set = out]
              /\ faultSeen' = (faultSeen \/ out # "ok")
              /\ IF res.stores
                 THEN /\ redis' = Put(redis, cache_key[r], json_dumps(heap[final_data[r]]))
                      /\ lastSet' = Put(lastSet, cache_key[r],
                                        [val |-> heap[final_data[r]], by |-> r])
                 ELSE UNCHANGED <<redis, lastSet>>
              /\ IF res.raises
                 THEN Finish(r, 500, ErrorBody("RedisError"), "ErrorReturn")
                 ELSE /\ pc' = [pc EXCEPT ![r] = "Return"]
                      /\ UNCHANGED response
    /\ calls' = [calls EXCEPT ![r].set = @ + 1]
    /\ UNCHANGED <<cfgVars, local_cache, heap, inputVars, localVars>>

\* return jsonify(final_data)
Return(r) ==
    /\ pc[r] = "Return"
    /\ Scheduled(r)
    /\ Finish(r, 200, heap[final_data[r]], "Return")
    /\ UNCHANGED <<cfgVars, storeVars, inputVars, localVars, calls, backend>>

\* the redis server drops an entry whose time-to-live has run out
RedisExpire(k) ==
    /\ k \in DOMAIN redis
    /\ \A q \in Req : pc[q] \notin LocalPcs
    /\ redis' = Remove(redis, k)
    /\ lastSet' = Remove(lastSet, k)
    /\ UNCHANGED <<cfgVars, local_cache, heap, faultSeen, pc, inputVars, localVars, response,
                   calls, backend>>

AllKeys == {generate_key(inp[1], inp[2]) : inp \in {x \in Inputs : x[1] \notin {NoFile, <<>>}}}

Next ==
    \/ \E r \in Req : Validate(r)
    \/ \E r \in Req : CacheGetLocal(r)
    \/ \E r \in Req : CacheGetRedis(r)
    \/ \E r \in Req : HitMark(r)
    \/ \E r \in Req : HitReturn(r)
    \/ \E r \in Req : ExtractText(r)
    \/ \E r \in Req : RequestAnalysis(r)
    \/ \E r \in Req : NormalizeStep(r)
    \/ \E r \in Req : CacheWriteLocal(r)
    \/ \E r \in Req : CacheWriteRedis(r)
    \/ \E r \in Req : Return(r)
    \/ \E k \in AllKeys : RedisExpire(k)

Spec == Init /\ [][Next]_vars

\* the steps of the handler thread of request r once the request has arrived
Handle(r) ==
    \/ CacheGetLocal(r)
    \/ CacheGetRedis(r)
    \/ HitMark(r)
    \/ HitReturn(r)
    \/ ExtractText(r)
    \/ RequestAnalysis(r)
    \/ NormalizeStep(r)
    \/ CacheWriteLocal(r)
    \/ CacheWriteRedis(r)
    \/ Return(r)

\* A handler thread that has been started keeps running: every call it makes
\* (redis get and setex, PdfReader, requests.post with timeout=60) returns or
\* raises.  Arrivals and expiry are not forced.
FairSpec == Init /\ [][Next]_vars /\ \A r \in Req : WF_vars(Handle(r))

(***************************************************************************)
(* generate_key on its own: two calls on arguments drawn from KeyBytes and *)
(* KeyTexts.                                                               *)
(***************************************************************************)
KeyBytes == {<<>>, <<0>>, <<37>>, <<37, 65>>, <<65, 37>>, <<195, 169>>, <<128>>}
KeyTexts == {<<>>, <<65>>, <<37, 65>>, <<233>>, <<195, 169>>}

KeyInit ==
    /\ use_redis = FALSE
    /\ QWEN_API_KEY = ""
    /\ InitRequests
    /\ key_in \in (KeyBytes \X KeyTexts) \X (KeyBytes \X KeyTexts)
    /\ key_out = <<>>

GenerateKeys ==
    /\ key_out = <<>>
    /\ key_out' = <<generate_key(key_in[1][1], key_in[1][2]),
                    generate_key(key_in[2][1], key_in[2][2])>>
    /\ UNCHANGED <<use_redis, QWEN_API_KEY, key_in, storeVars, pc, inputVars, localVars,
                   response, calls, backend>>

KeySpec == KeyInit /\ [][GenerateKeys]_vars

(***************************************************************************)
(* Properties.                                                             *)
(***************************************************************************)
\* the response or entry v carries "_is_cached": true
Flagged(v) == HasKey(v, "_is_cached") /\ GetItem(v, "_is_cached") = "True"

\* r wrote the entry now stored under some key
HoldsEntry(r) == \E k \in DOMAIN lastSet : lastSet[k].by = r

\* C1: in every interleaving, on either backend, a response produced by the
\* miss path (Return) carries no _is_cached flag and a response produced by a
\* cache hit (HitReturn) carries _is_cached = true.
C1_FlagOnlyOnHits ==
    \A r \in Req :
        pc[r] = "Done" =>
            /\ response[r].via = "Return" => ~HasKey(response[r].body, "_is_cached")
            /\ response[r].via = "HitReturn" => Flagged(response[r].body)

\* C2: once a request has missed the cache and returned payload P, a later
\* request with the same document and job description, on a backend that
\* works and within the time-to-live, returns P with the cached flag set and
\* does not call the remote service.
C2_RepeatServedFromCache ==
    \A r1 \in Req : \A r2 \in Req :
        ( /\ pc[r2] = "Done"
          /\ r1 \in startedAfter[r2]
          /\ response[r1].via = "Return"
          /\ file[r2] = file[r1] /\ jd[r2] = jd[r1]
          /\ ~faultSeen
          /\ cache_key[r1] \in DOMAIN lastSet
          /\ lastSet[cache_key[r1]].by = r1 )
        => /\ response[r2].status = 200
           /\ response[r2].via = "HitReturn"
           /\ response[r2].body = SetItem(response[r1].body, "_is_cached", "True")
           /\ calls[r2].remote = 0

\* C3: no entry held by the cache, in the in-process mapping or in redis,
\* contains the _is_cached field, and every entry still equals the value that
\* was stored, whatever hits were served from it.
C3_FlagNeverStored ==
    /\ \A k \in DOMAIN local_cache :
          /\ ~HasKey(heap[local_cache[k]], "_is_cached")
          /\ heap[local_cache[k]] = lastSet[k].val
    /\ \A k \in DOMAIN redis :
          /\ json_loads(redis[k]).ok
          /\ ~HasKey(json_loads(redis[k]).val, "_is_cached")
          /\ json_loads(redis[k]).val = lastSet[k].val

\* C4: a request without an uploaded file, or with zero-length bytes, ends at
\* once in ErrorReturn with status 400: no fingerprint, no cache read or
\* write, no text extraction and no remote call.
C4_EmptyUploadRejected ==
    \A r \in Req :
        (pc[r] # "Start" /\ (file[r] = NoFile \/ Len(file[r]) = 0)) =>
            /\ pc[r] = "Done"
            /\ response[r].status = 400
            /\ response[r].via = "ErrorReturn"
            /\ cache_key[r] = ""
            /\ calls[r] = NoCalls
            /\ ~HoldsEntry(r)

C4_Witness ==
    \E r1 \in Req : \E r2 \in Req :
        /\ pc[r1] = "Done" /\ file[r1] = NoFile /\ response[r1].status = 400
        /\ pc[r2] = "Done" /\ file[r2] = <<>> /\ response[r2].status = 400

\* C5: on a cache miss, when extraction yields an empty or whitespace-only
\* text (a document the reader cannot parse yields the empty text), the
\* request ends in ErrorReturn with status 400, the remote service is not
\* called and nothing is written to the cache.
C5_EmptyExtractionRejected ==
    \A r \in Req :
        calls[r].extract > 0 =>
            /\ (Len(file[r]) > 0 /\ file[r][1] # 37) => resume_text[r] = <<>>
            /\ (\A i \in 1..Len(resume_text[r]) : resume_text[r][i] \in WS) =>
                  /\ pc[r] = "Done"
                  /\ response[r].status = 400
                  /\ response[r].via = "ErrorReturn"
                  /\ calls[r].remote = 0
                  /\ calls[r].set = 0
                  /\ ~HoldsEntry(r)

C5_Witness ==
    \E r1 \in Req : \E r2 \in Req :
        /\ pc[r1] = "Done" /\ calls[r1].extract = 1 /\ file[r1] = <<80>>
        /\ resume_text[r1] = <<>> /\ response[r1].status = 400
        /\ pc[r2] = "Done" /\ calls[r2].extract = 1 /\ resume_text[r2] # <<>>
        /\ response[r2].status = 400

\* replies of the remote service that are JSON once stripped and unfenced
GoodReplies == {RawBare85, RawFenced85, RawBare60, RawEmptyObj, RawList, RawNull}

\* r went past text extraction towards the remote call
ReachedRemote(r) ==
    /\ calls[r].extract = 1
    /\ \E i \in 1..Len(resume_text[r]) : resume_text[r][i] \notin WS
    /\ pc[r] # "RequestAnalysis"

\* C6: a request whose remote call fails (error, timeout, malformed envelope,
\* missing credential) or whose reply does not normalize ends in ErrorReturn
\* and leaves the cache alone: every entry was written by a request that got
\* a reply and normalized it.
C6_FailuresNeverCached ==
    /\ \A r \in Req :
          (ReachedRemote(r) /\ raw_result[r] \notin GoodReplies) =>
              /\ pc[r] \in {"Normalize", "Done"}
              /\ calls[r].set = 0
              /\ ~HoldsEntry(r)
              /\ pc[r] = "Done" => (response[r].status = 500 /\ response[r].via = "ErrorReturn")
    /\ \A k \in (DOMAIN local_cache) \cup (DOMAIN redis) :
          /\ k \in DOMAIN lastSet
          /\ calls[lastSet[k].by].remote = 1
          /\ raw_result[lastSet[k].by] \in GoodReplies

C6_Witness ==
    \E r1 \in Req : \E r2 \in Req :
        /\ pc[r1] = "Done" /\ calls[r1].remote = 1 /\ raw_result[r1] = <<>>
        /\ pc[r2] = "Done" /\ raw_result[r2] \in {RawUnclosed, RawProse}
        /\ response[r1].status = 500 /\ response[r2].status = 500

\* C7: when redis raises during set, the request still returns, through
\* Return, the result it has just normalized, with status 200 and without the
\* cached flag; the failure does not reach the caller.
C7_WriteFailureSwallowed ==
    \A r \in Req :
        backend[r].set = "raise" =>
            /\ pc[r] \in {"Return", "Done"}
            /\ pc[r] = "Done" =>
                  /\ response[r].status = 200
                  /\ response[r].via = "Return"
                  /\ response[r].body = Normalize(raw_result[r]).val
                  /\ ~HasKey(response[r].body, "_is_cached")

C7_Witness ==
    \E r \in Req :
        /\ use_redis
        /\ backend[r].set = "raise"
        /\ pc[r] = "Done"
        /\ response[r].status = 200
        /\ cache_key[r] \notin DOMAIN redis

\* C8: when redis raises on get, or returns text that does not deserialize,
\* CacheManager.get returns None without raising and the request goes on to
\* text extraction exactly as for a key without an entry.
C8_ReadFailureIsMiss ==
    \A r \in Req :
        backend[r].get \in {"raise", "garbage"} =>
            /\ pc[r] = "ExtractText"
            /\ cached_data[r] = 0
            /\ response[r] = NoResponse
            /\ calls[r] = [NoCalls EXCEPT !.key = 1, !.get = 1]

C8_Witness ==
    \E r \in Req :
        /\ backend[r].get \in {"raise", "garbage"}
        /\ cache_key[r] \in DOMAIN redis
        /\ pc[r] = "ExtractText"

\* what get(k) returns on a backend that answers
GetValue(k) ==
    IF use_redis THEN cache_get_redis(k, "ok").val
    ELSE IF k \in DOMAIN local_cache THEN heap[local_cache[k]] ELSE None

\* C9: after set(k, v), and whatever gets, hits served for k and sets to other
\* keys follow within the time-to-live, get(k) returns a value equal to the v
\* that was passed to set, on either backend.
C9_RoundTrip ==
    \A k \in DOMAIN lastSet : GetValue(k) = lastSet[k].val

\* C10: two calls of generate_key return the same key exactly when both the
\* bytes and the text are the same, and a key is the fixed tag, the digest of
\* the bytes and the digest of the encoded text, joined by colons.
C10_KeyInjective ==
    key_out # <<>> =>
        /\ (key_out[1] = key_out[2]) <=> (key_in[1] = key_in[2])
        /\ \A i \in 1..2 :
              /\ key_out[i] = "resume:v3:" \o md5_hexdigest(key_in[i][1]) \o ":"
                                 \o md5_hexdigest(encode_utf8(key_in[i][2]))
              /\ Len(key_out[i]) = 10 + DigestHexLen + 1 + DigestHexLen

C10_Witness ==
    /\ key_out # <<>>
    /\ key_in[1][1] = encode_utf8(key_in[2][2])
    /\ key_in[2][1] = encode_utf8(key_in[1][2])
    /\ key_in[1] # key_in[2]
    /\ key_out[1] # key_out[2]

\* r1 and r2 carried the same fingerprint, were in flight together, both
\* missed and both returned through Return
ConcurrentMisses(r1, r2) ==
    /\ r1 # r2
    /\ pc[r1] = "Done" /\ pc[r2] = "Done"
    /\ cache_key[r1] # "" /\ cache_key[r1] = cache_key[r2]
    /\ r1 \notin startedAfter[r2] /\ r2 \notin startedAfter[r1]
    /\ response[r1].via = "Return" /\ response[r2].via = "Return"

\* the fingerprint has an entry in the backend in use
HasEntry(k) == IF use_redis THEN k \in DOMAIN redis ELSE k \in DOMAIN local_cache

\* C11: when two requests with the same fingerprint were in flight together
\* and both missed, both called the remote service once, and once both have
\* returned the cache holds an entry for the fingerprint that equals the
\* normalized reply of one of the two, and each response equals the
\* normalized reply of the request's own remote call.
C11_ConcurrentMisses ==
    \A r1 \in Req : \A r2 \in Req :
        ConcurrentMisses(r1, r2) =>
            /\ calls[r1].remote = 1 /\ calls[r2].remote = 1
            /\ HasEntry(cache_key[r1])
            /\ GetValue(cache_key[r1]) \in {Normalize(raw_result[r1]).val,
                                             Normalize(raw_result[r2]).val}
            /\ response[r1].body = Normalize(raw_result[r1]).val
            /\ response[r2].body = Normalize(raw_result[r2]).val

\* r2 arrived after r1 had returned its fresh result for the same fingerprint,
\* the entry r1 wrote is still the one in place and no backend call failed
ServedAfter(r1, r2) ==
    /\ r1 \in startedAfter[r2]
    /\ response[r1].via = "Return"
    /\ cache_key[r2] = cache_key[r1]
    /\ cache_key[r1] \in DOMAIN lastSet
    /\ lastSet[cache_key[r1]].by = r1
    /\ ~faultSeen

\* C12: whatever value a successful request stored under a fingerprint, a
\* later request with that fingerprint to which get hands the stored value
\* takes the hit path: it ends in HitReturn with status 200 and the cached
\* flag, without text extraction, remote call or cache write.
C12_StoredValueIsHit ==
    \A r2 \in Req :
        /\ backend[r2].get = "value" => pc[r2] = "HitMark"
        /\ \A r1 \in Req :
              (pc[r2] = "Done" /\ ServedAfter(r1, r2)) =>
                  /\ response[r2].status = 200
                  /\ response[r2].via = "HitReturn"
                  /\ Flagged(response[r2].body)
                  /\ calls[r2].extract = 0
                  /\ calls[r2].remote = 0
                  /\ calls[r2].set = 0

\* replies that render a JSON object, bare or inside a json fence
MappingReplies == {RawBare85, RawFenced85, RawBare60, RawEmptyObj}

\* r has received a reply and lines 221-225 have run on it
Normalized(r) == calls[r].remote = 1 /\ raw_result[r] # <<>> /\ pc[r] # "Normalize"

\* C13: a reply is accepted only when its stripped text, or the content of
\* its json fence, is a JSON object; the fenced and the bare rendering of the
\* same object give the same result; every other reply (prose, an unclosed
\* json fence, JSON that is not an object) ends the request in ErrorReturn
\* after its single remote call, and is neither cached nor returned.
C13_OnlyMappingsAccepted ==
    \A r \in Req :
        Normalized(r) =>
            /\ raw_result[r] \in MappingReplies => final_data[r] = FinalRef(r)
            /\ (raw_result[r] \in {RawBare85, RawFenced85} /\ pc[r] = "CacheWrite") =>
                  heap[final_data[r]] = Dict(<<<<"match_score", "85">>>>)
            /\ raw_result[r] \notin MappingReplies =>
                  /\ pc[r] = "Done"
                  /\ response[r].status = 500
                  /\ response[r].via = "ErrorReturn"
                  /\ final_data[r] = 0
                  /\ calls[r].remote = 1
                  /\ calls[r].set = 0
                  /\ ~HoldsEntry(r)

\* C14: a request calls the remote service at most once, also when the call
\* fails, and not at all when it ends in HitReturn, in a 400 response, or
\* when QWEN_API_KEY is not set.
C14_AtMostOneRemoteCall ==
    \A r \in Req :
        /\ calls[r].remote <= 1
        /\ (calls[r].remote = 1 /\ raw_result[r] = <<>>) =>
              (pc[r] = "Done" /\ response[r].via = "ErrorReturn")
        /\ pc[r] = "Done" =>
              /\ response[r].via = "HitReturn" => calls[r].remote = 0
              /\ response[r].status = 400 => calls[r].remote = 0
              /\ QWEN_API_KEY = "" => calls[r].remote = 0

C14_Witness ==
    \E r1 \in Req : \E r2 \in Req :
        /\ pc[r1] = "Done" /\ calls[r1].remote = 1 /\ raw_result[r1] = <<>>
        /\ response[r1].status = 500
        /\ pc[r2] = "Done" /\ calls[r2].extract = 1 /\ response[r2].status = 400
        /\ calls[r2].remote = 0

\* the response of a finished request is one of the three terminal outcomes,
\* and what was raised on the way became an error body with status 500
TerminalOutcome(r) ==
    /\ response[r].via \in {"Return", "HitReturn", "ErrorReturn"}
    /\ response[r].via \in {"Return", "HitReturn"} <=> response[r].status = 200
    /\ response[r].via = "ErrorReturn" =>
          /\ response[r].status \in {400, 500}
          /\ HasKey(response[r].body, "error")
          /\ Len(response[r].body.items) = 1
    /\ ( \/ calls[r].remote = 1 /\ raw_result[r] = <<>>
         \/ raw_result[r] \in {RawUnclosed, RawProse}
         \/ calls[r].extract = 1 /\ calls[r].remote = 0 /\ QWEN_API_KEY = ""
                                 /\ ~(\A i \in 1..Len(resume_text[r]) : resume_text[r][i] \in WS)
         \/ cached_data[r] # 0 /\ heap[cached_data[r]].kind = "list" )
       => (response[r].via = "ErrorReturn" /\ response[r].status = 500)

\* C15: every request that has arrived eventually finishes, given that the
\* calls it makes return or raise; it finishes in exactly one of Return,
\* HitReturn and ErrorReturn, its response never changes afterwards, and
\* every failure raised in the handler becomes an error body with status 500.
C15_Terminates ==
    /\ [](\A r \in Req : pc[r] = "Done" => TerminalOutcome(r))
    /\ [][\A r \in Req : pc[r] = "Done" => (pc'[r] = "Done" /\ response'[r] = response[r])]_vars
    /\ \A r \in Req : (pc[r] # "Start") ~> (pc[r] = "Done")

C15_Witness ==
    \E r1 \in Req : \E r2 \in Req :
        /\ pc[r1] = "Done" /\ response[r1].via = "Return"
        /\ pc[r2] = "Done" /\ raw_result[r2] = RawUnclosed
        /\ response[r2] = [status |-> 500, body |-> ErrorBody("AttributeError"),
                           via |-> "ErrorReturn"]

\* C16: use_redis is decided in the constructor, true exactly when the redis
\* library and REDIS_HOST are present and the ping answers, and no step of
\* any request changes it afterwards, whatever redis does at run time; while
\* use_redis is set the in-process mapping is neither read nor written and
\* stays empty.
C16_BackendFixed ==
    /\ [](\A hasLib \in BOOLEAN, hostSet \in BOOLEAN, pingOk \in BOOLEAN :
             CacheManagerInit(hasLib, hostSet, pingOk).use_redis
                = (hasLib /\ hostSet /\ pingOk))
    /\ [](use_redis => local_cache = <<>>)
    /\ [][ /\ use_redis' = use_redis
           /\ use_redis => \A r \in Req : ~CacheGetLocal(r) /\ ~CacheWriteLocal(r) ]_vars

C16_Witness ==
    /\ use_redis
    /\ local_cache = <<>>
    /\ \A r \in Req : pc[r] = "Done"
    /\ \E r \in Req : backend[r].set = "raise"
    /\ \E r \in Req : backend[r].set = "ok"

\* C17: on the in-process backend, once set has run for a key, get returns a
\* value for that key (not None) in every later state, and no step removes a
\* key from the mapping.
C17_LocalEntriesStay ==
    /\ [](~use_redis =>
             \A r \in Req :
                 calls[r].set = 1 =>
                     /\ cache_key[r] \in DOMAIN local_cache
                     /\ GetValue(cache_key[r]) # None)
    /\ [][~use_redis => (DOMAIN local_cache) \subseteq (DOMAIN local_cache')]_vars


\* v without its _is_cached member
Unflagged(v) ==
    IF v.kind = "dict"
    THEN Dict(SelectSeq(v.items, LAMBDA it : it[1] # "_is_cached"))
    ELSE v

\* request q sent the pair (f, j) and v is what its remote call produced
ProducedFor(q, f, j, v) ==
    /\ file[q] = f
    /\ jd[q] = j
    /\ calls[q].remote = 1
    /\ Normalize(raw_result[q]).ok
    /\ Unflagged(v) = Unflagged(Normalize(raw_result[q]).val)

\* C18: in every reachable state the entry held under a fingerprint is the
\* analysis that the remote call of a request with exactly that (bytes, jd)
\* pair produced, requests that share a fingerprint sent the same pair, and a
\* response served from the cache is the analysis of a request that sent the
\* same bytes and the same jd as the request it answers.
C18_NoCrossRequestLeak ==
    /\ \A r \in Req, q \in Req :
          (cache_key[r] # "" /\ cache_key[r] = cache_key[q]) =>
              (file[r] = file[q] /\ jd[r] = jd[q])
    /\ \A r \in Req :
          (cache_key[r] # "" /\ HasEntry(cache_key[r])) =>
              \E q \in Req : ProducedFor(q, file[r], jd[r], GetValue(cache_key[r]))
    /\ \A r \in Req :
          (pc[r] = "Done" /\ response[r].via = "HitReturn") =>
              \E q \in Req \ {r} : ProducedFor(q, file[r], jd[r], response[r].body)

\* two requests in flight together sent the same document with different job
\* descriptions, got different analyses, and both analyses are in the cache
C18_Witness ==
    \E r1 \in Req, r2 \in Req :
        /\ file[r1] = file[r2] /\ jd[r1] # jd[r2]
        /\ pc[r1] = "Done" /\ pc[r2] = "Done"
        /\ r1 \notin startedAfter[r2] /\ r2 \notin startedAfter[r1]
        /\ HasEntry(cache_key[r1]) /\ HasEntry(cache_key[r2])
        /\ GetValue(cache_key[r1]) # GetValue(cache_key[r2])
        /\ GetValue(cache_key[r1]) = Normalize(raw_result[r1]).val
        /\ GetValue(cache_key[r2]) = Normalize(raw_result[r2]).val

====
